---- MODULE Spec2Model ----
(***************************************************************************)
(* DataGathererFramework (src/core.js): one run pass.  run() reads the     *)
(* sources, runs the extension hooks, execute() fans every source out to   *)
(* its gatherers, reduces the statuses, collects the errors and appends    *)
(* the results to the destination connector in batches.                    *)
(***************************************************************************)
EXTENDS Integers, Sequences, FiniteSets, TLC

\* ---------------------------------------------------------------- bounds
\* Longest source dataset run with a configured batch size.
MaxSources == 7
\* Longest source dataset run with the default batch size.
MaxLongSources == 11
\* Largest batchUpdateBuffer passed in coreConfig.
MaxBatch == 3
\* Last value of the millisecond clock read by Date.now().
MaxClock == 1
\* Most items of the data array a gatherer returns for one source.
MaxItems == 2
\* Rows of the source tab read through the connector's filters.
MaxRows == 3
\* Most results earlier passes left in a result tab.
MaxEarlier == 2
\* Most rows of a sheet given to getTabLastRow.
MaxSheetRows == 5
\* How far below zero rowIndex of getTabLastRow is followed.
MaxUnderrun == 2
\* Script executions that call runWithServiceLock concurrently.
MaxExecutions == 3
\* Most data rows of the Sources-1 tab read by a recurring pass.
MaxSchedRows == 2
\* Most results earlier passes left pending or finished in Results-1.
MaxStored == 2
\* Last day of the clock the recurring and retrieval passes read.
MaxTime == 1
\* Most passes made on the tabs in one behaviour.
MaxPasses == 2

\* ------------------------------------------------------------- constants
\* core.js:130, the fallback of `coreConfig.batchUpdateBuffer || 10`.
DefaultBatchUpdateBuffer == 10

\* common/status, imported at core.js:19.
Status == [RETRIEVED |-> "Retrieved", SUBMITTED |-> "Submitted", ERROR |-> "Error"]

\* core.js:55, this.overallGathererNames.
overallGathererNames == <<"docai">>

Hooks == {"beforeAllRuns", "beforeRun", "afterRun", "afterAllRuns"}

\* ------------------------------------------------------ JavaScript values
\* An entry of an errors list: an Error object, a plain string or null.
Err(msg) == [kind |-> "Error", text |-> msg]
Str(s) == [kind |-> "string", text |-> s]
NullErr == [kind |-> "null", text |-> ""]

\* String(e), as `"[name] " + e` converts e.
StringOf(e) ==
  CASE e.kind = "Error" -> IF e.text = "" THEN "Error" ELSE "Error: " \o e.text
    [] e.kind = "string" -> e.text
    [] OTHER -> "null"

\* `error && error.message`: only an Error with a non-empty message.
HasMessage(e) == e.kind = "Error" /\ e.text # ""

Range(s) == {s[k] : k \in 1..Len(s)}

\* The value of a `gatherer` property: undefined, a string (kept as its
\* characters, for split) or an array of names.
NoGatherer == [kind |-> "absent", chars |-> <<>>, names |-> <<>>]
GathererString(chars) == [kind |-> "string", chars |-> chars, names |-> <<>>]
GathererList(names) == [kind |-> "list", chars |-> <<>>, names |-> names]

RECURSIVE SplitAcc(_, _, _)
SplitAcc(chars, cur, acc) ==
  IF chars = <<>> THEN Append(acc, cur)
  ELSE IF Head(chars) = ","
       THEN SplitAcc(Tail(chars), "", Append(acc, cur))
       ELSE SplitAcc(Tail(chars), cur \o Head(chars), acc)

\* String.prototype.split(',').
Split(chars) == SplitAcc(chars, "", <<>>)

\* core.js:190-198.
parseGathererNames(gathererName) ==
  IF gathererName.kind = "absent" THEN <<>>
  ELSE IF gathererName.kind = "string" /\ gathererName.chars = <<>> THEN <<>>
  ELSE IF gathererName.kind = "list" THEN gathererName.names
  ELSE Split(gathererName.chars)

RECURSIVE UniqAcc(_, _)
UniqAcc(s, acc) ==
  IF s = <<>> THEN acc
  ELSE IF Head(s) \in Range(acc) THEN UniqAcc(Tail(s), acc)
       ELSE UniqAcc(Tail(s), Append(acc, Head(s)))

\* The names as given, a repeated name kept every time it occurs.
UniqKeepsRepeats(s) == s

\* [...new Set(names)]: distinct names in order of first occurrence.
Uniq(s) == UniqAcc(s, <<>>)

\* ------------------------------------------------------------- gatherers
\* A GathererResponse; isNull is the `return null` of Gatherer.run.
NoErrors == [kind |-> "absent", items |-> <<>>]
ErrorList(items) == [kind |-> "list", items |-> items]
SingleError(e) == [kind |-> "single", items |-> <<e>>]

\* The `data` of a response: undefined, one object or an array of objects,
\* each object kept as its `key`.
NoData == [kind |-> "absent", items |-> <<>>]
DataObject(key) == [kind |-> "object", items |-> <<key>>]
DataList(keys) == [kind |-> "list", items |-> keys]

\* `error` is the response's `error` property, "" when it has none.
Response(status, statusText, errors) ==
  [isNull |-> FALSE, status |-> status, statusText |-> statusText,
   errors |-> errors, data |-> NoData, error |-> ""]
DataResponse(status, data) ==
  [isNull |-> FALSE, status |-> status, statusText |-> "",
   errors |-> NoErrors, data |-> data, error |-> ""]
NullResponse ==
  [isNull |-> TRUE, status |-> "", statusText |-> "", errors |-> NoErrors,
   data |-> NoData, error |-> ""]

Returns(response) == [throws |-> FALSE, message |-> "", response |-> response]
Throws(message) == [throws |-> TRUE, message |-> message, response |-> NullResponse]

\* gatherers/fake.js: run reads source.fake.url and returns RETRIEVED.
FakeGathererRun(source) ==
  IF source.hasFake
  THEN Returns(Response(Status.RETRIEVED, "Success", ErrorList(<<>>)))
  ELSE Throws("Cannot read properties of undefined (reading 'url')")

\* What the run of a gatherer held in this.gatherers can do: the responses
\* of the gatherers the tests register, Gatherer.run's null, or a throw.
GathererOutcomes ==
  { Returns(Response(Status.RETRIEVED, "", NoErrors)),
    Returns(Response(Status.SUBMITTED, "", NoErrors)),
    Returns(Response(Status.ERROR, "", ErrorList(<<Err("boom")>>))),
    Returns(Response(Status.ERROR, "", SingleError(Err("boom")))),
    Returns(Response(Status.ERROR, "", ErrorList(<<Err("e1"), Str("e2")>>))),
    Returns(Response(Status.RETRIEVED, "", ErrorList(<<NullErr>>))),
    Returns(NullResponse),
    Throws("boom") }

\* Names held in this.gatherers or loadable from ./gatherers/.
RegisteredGatherers == {"a", "b", "docai", "fake", "test"}

\* core.js:148-182: null for a falsy name, a throw for a name that cannot
\* be loaded, else the instance.
getGatherer(name) ==
  IF name = "" THEN "null"
  ELSE IF name \notin RegisteredGatherers THEN "throws"
  ELSE "instance"

\* sheets-connector.test.js:1386-1407, the gatherer the tests register: an
\* array of data items for a source with multiRowsData, else one object.
\* The array has two items in the tests; here it has up to MaxItems.
DataKeys == <<"test1", "test2", "test3", "test4">>
TestGathererRun(source) ==
  IF source.multiRowsData
  THEN {Returns(DataResponse(Status.RETRIEVED, DataList(SubSeq(DataKeys, 1, k)))) :
          k \in 0..MaxItems}
  ELSE {Returns(DataResponse(Status.RETRIEVED, DataObject("test")))}

\* What apiHandler.post returns for the Document AI call: the status code
\* and, for a failure, response.error.message.
ApiResponses ==
  { [statusCode |-> 200, message |-> ""],
    [statusCode |-> 403, message |-> "Permission denied"],
    [statusCode |-> 500, message |-> "Internal error"] }

\* gatherers/docai.js:137-145 and 170-176: the response of a failed run; it
\* has the property `error` and no property `errors`.
DocaiErrorResponse(message) ==
  [isNull |-> FALSE, status |-> Status.ERROR, statusText |-> "Error",
   errors |-> NoErrors, data |-> NoData, error |-> message]

\* gatherers/docai.js:103-177, run(source, gathererOptions); api is what
\* the Document AI call returns when it is made.
DocaiGathererRun(source, gathererOptions, api) ==
  IF ~gathererOptions.projectId
  THEN DocaiErrorResponse("projectId is missing in gathererOptions")
  ELSE IF ~gathererOptions.processorId
  THEN DocaiErrorResponse("processorId is missing in gathererOptions")
  ELSE IF ~gathererOptions.authorization
  THEN DocaiErrorResponse("authorization is missing in gathererOptions")
  ELSE IF ~source.contentBase64
  THEN DocaiErrorResponse("contentBase64 is missing in gathererOptions")
  ELSE IF api.statusCode # 200
  THEN DocaiErrorResponse(api.message)
  ELSE [DataResponse(Status.RETRIEVED, DataObject("entities"))
          EXCEPT !.statusText = "Success"]

\* core.js:397 passes the options of the run call as gathererOptions.  The
\* gatherer `docai` is a stub of the tests or the DocaiGatherer.
RunOutcomes(source, name, opts) ==
  IF name = "fake" THEN {FakeGathererRun(source)}
  ELSE IF name = "test" THEN TestGathererRun(source)
  ELSE IF name = "docai"
  THEN GathererOutcomes
         \cup {Returns(DocaiGathererRun(source, opts, api)) : api \in ApiResponses}
  ELSE GathererOutcomes

\* core.js:400-408, the catch branch of runGatherer.
ErrorResponse(message) ==
  Response(Status.ERROR, message, ErrorList(<<Err(message)>>))

\* runGatherer whose catch branch leaves out `errors: [error]`.
runGathererDropsError(name, outcome) ==
  CASE getGatherer(name) = "null" ->
         Response(Status.ERROR, "Cannot read properties of null (reading 'run')", NoErrors)
    [] getGatherer(name) = "throws" ->
         Response(Status.ERROR, "Unable to load gatherer: ./gatherers/" \o name, NoErrors)
    [] OTHER ->
         IF outcome.throws THEN Response(Status.ERROR, outcome.message, NoErrors)
         ELSE outcome.response

\* core.js:392-409; outcome is what gatherer.run does when it is reached.
runGatherer(name, outcome) ==
  CASE getGatherer(name) = "null" ->
         ErrorResponse("Cannot read properties of null (reading 'run')")
    [] getGatherer(name) = "throws" ->
         ErrorResponse("Unable to load gatherer: ./gatherers/" \o name)
    [] OTHER ->
         IF outcome.throws THEN ErrorResponse(outcome.message)
         ELSE outcome.response

\* ---------------------------------------------------------------- status
\* getOverallStatus with `> 0` in place of `=== statuses.length`.
getOverallStatusAnyRetrieved(statuses) ==
  IF Len(SelectSeq(statuses, LAMBDA s : s = Status.RETRIEVED)) > 0
  THEN Status.RETRIEVED
  ELSE IF Len(SelectSeq(statuses, LAMBDA s : s = Status.ERROR)) > 0
       THEN Status.ERROR
       ELSE Status.SUBMITTED

\* core.js:476-488.
getOverallStatus(statuses) ==
  IF Len(SelectSeq(statuses, LAMBDA s : s = Status.RETRIEVED)) = Len(statuses)
  THEN Status.RETRIEVED
  ELSE IF Len(SelectSeq(statuses, LAMBDA s : s = Status.ERROR)) > 0
       THEN Status.ERROR
       ELSE Status.SUBMITTED

\* ---------------------------------------------------------------- errors
\* The prefixing with `error` in place of `error.message`.
PrefixedErrorsWholeError(name, response) ==
  LET errors == response.errors.items
  IN [k \in 1..Len(errors) |-> Str("[" \o name \o "] " \o StringOf(errors[k]))]

\* core.js:503-513: the prefixed strings of one sub-result.
PrefixedErrors(name, response) ==
  LET errors == response.errors.items
  IN [k \in 1..Len(errors) |->
        IF HasMessage(errors[k])
        THEN Str("[" \o name \o "] " \o errors[k].text)
        ELSE Str("[" \o name \o "] " \o StringOf(errors[k]))]

RECURSIVE CollectErrors(_, _)
CollectErrors(names, sub) ==
  IF names = <<>> THEN <<>>
  ELSE IF Head(names) \notin DOMAIN sub THEN CollectErrors(Tail(names), sub)
       ELSE PrefixedErrors(Head(names), sub[Head(names)])
              \o CollectErrors(Tail(names), sub)

\* core.js:494-516.
getOverallErrors(result) ==
  LET gathererNames == parseGathererNames(result.gatherer) \o overallGathererNames
      overallErrors == CollectErrors(Uniq(gathererNames), result.sub)
  IN SelectSeq(overallErrors, LAMBDA e : e.text # "")

\* ------------------------------------------------------------ extensions
\* An extension of this.extensions: the hooks it defines and those that throw.
Extension(name, defines, throws) ==
  [name |-> name, defines |-> defines, throws |-> throws]

HookError(extName, functionName) == Err(extName \o "." \o functionName \o " failed")

RECURSIVE RunExtensionsFrom(_, _, _)
RunExtensionsFrom(registry, extNames, functionName) ==
  IF extNames = <<>> THEN [errors |-> <<>>, calls |-> <<>>]
  ELSE LET extName == Head(extNames)
           rest == RunExtensionsFrom(registry, Tail(extNames), functionName)
           found == {k \in 1..Len(registry) : registry[k].name = extName}
       IN IF found = {} THEN rest
          ELSE LET extension == registry[CHOOSE k \in found : TRUE]
               IN IF functionName \notin extension.defines THEN rest
                  ELSE [errors |-> (IF functionName \in extension.throws
                                    THEN <<HookError(extName, functionName)>>
                                    ELSE <<>>) \o rest.errors,
                        calls |-> <<extName>> \o rest.calls]

RECURSIVE RunExtensionsStopsAtThrow(_, _, _)
\* runExtensions with the try around the whole loop: the first throw ends it.
RunExtensionsStopsAtThrow(registry, extNames, functionName) ==
  IF extNames = <<>> THEN [errors |-> <<>>, calls |-> <<>>]
  ELSE LET extName == Head(extNames)
           found == {k \in 1..Len(registry) : registry[k].name = extName}
           rest == RunExtensionsStopsAtThrow(registry, Tail(extNames), functionName)
       IN IF found = {} THEN rest
          ELSE LET extension == registry[CHOOSE k \in found : TRUE]
               IN IF functionName \notin extension.defines THEN rest
                  ELSE IF functionName \in extension.throws
                       THEN [errors |-> <<HookError(extName, functionName)>>,
                             calls |-> <<extName>>]
                       ELSE [errors |-> rest.errors, calls |-> <<extName>> \o rest.calls]

\* core.js:359-378: the errors returned, and the extensions whose hook ran.
runExtensions(registry, extNames, functionName) ==
  RunExtensionsFrom(registry, extNames, functionName)

\* ----------------------------------------------------------------- state
VARIABLES
  coreConfig,        \* the coreConfig given to the constructor
  batchUpdateBuffer, \* this.batchUpdateBuffer
  extensions,        \* this.extensions, in insertion order
  dataset,           \* the source dataset held by the connector
  options,           \* the options of the run call
  pc,                \* position of the pass
  sources,           \* run: sources
  i,                 \* execute: index of the current source (1-based)
  pending,           \* gatherer names of the current source not yet run
  statuses,          \* execute: statuses
  newResult,         \* execute: newResult
  resultsToUpdate,   \* execute: resultsToUpdate
  allNewResults,     \* execute: allNewResults
  overallErrors,     \* run: overallErrors
  returned,          \* the value run resolved with
  failure,           \* the reason run rejected with, "" while none
  now,               \* Date.now()
  appended,          \* the items of every appendDataList call, in call order
  destination,       \* the data rows of every result tab of the connector
  trace,             \* hook calls, gatherer runs and connector calls, in order
  sheetValues,       \* getTabLastRow: sheetValues, whether each row has a value
  rowIndex,          \* getTabLastRow: rowIndex
  tabPc,             \* position of the appendDataList call on the sheet
  lockHolder,        \* the execution that holds the script lock, 0 if none
  lockPc,            \* position of each execution in runWithServiceLock
  called,            \* the executions whose callback was called
  sourcesTab,        \* the data rows of the Sources-1 tab
  resultsTab,        \* the data rows of the Results-1 tab
  today,             \* the day Date.now() falls on, as the recurring and retrieval passes read it
  jobs,              \* what the gatherer's service holds for each result row
  passLog            \* the passes made on the two tabs, in order

\* The variables of a run pass, of a call on a sheet, and all but the pass's.
passVars == <<coreConfig, batchUpdateBuffer, extensions, dataset, options, pc,
              sources, i, pending, statuses, newResult, resultsToUpdate,
              allNewResults, overallErrors, returned, failure, now, appended,
              destination, trace>>
tabVars == <<sheetValues, rowIndex, tabPc>>
lockVars == <<lockHolder, lockPc, called>>
schedVars == <<sourcesTab, resultsTab, today, jobs, passLog>>
otherVars == <<tabVars, lockVars, schedVars>>

vars == <<passVars, otherVars>>

Event(ev, ext, src, name, n) ==
  [ev |-> ev, ext |-> ext, src |-> src, name |-> name, n |-> n,
   outcome |-> Throws("")]

\* The run of gatherer `name` for source src, and what its run did.
GathererEvent(src, name, outcome) ==
  [ev |-> "gatherer", ext |-> "", src |-> src, name |-> name, n |-> 0,
   outcome |-> outcome]

\* A call of the connector's appendDataList with n results, made after source
\* src (0 for the call after the loop), and whether it returned or threw.
AppendEvent(src, n, ok) ==
  [ev |-> "append", ext |-> "", src |-> src, name |-> "", n |-> n,
   outcome |-> IF ok THEN Returns(NullResponse) ELSE Throws("appendDataList")]

HookEvents(functionName, calls, src) ==
  [k \in 1..Len(calls) |-> Event(functionName, calls[k], src, "", 0)]

\* A source row: label, gatherer, whether it has a `fake` config, errors.
Source(label, gatherer, hasFake) ==
  [defined |-> TRUE, label |-> label, gatherer |-> gatherer,
   hasFake |-> hasFake, errors |-> <<>>, selected |-> FALSE,
   multiRowsData |-> FALSE, contentBase64 |-> FALSE]
UndefinedSource ==
  [defined |-> FALSE, label |-> 0, gatherer |-> NoGatherer,
   hasFake |-> FALSE, errors |-> <<>>, selected |-> FALSE,
   multiRowsData |-> FALSE, contentBase64 |-> FALSE]

NoResult ==
  [id |-> 0, gatherer |-> NoGatherer, status |-> "", label |-> 0,
   createdTimestamp |-> 0, modifiedTimestamp |-> 0, errors |-> <<>>,
   sub |-> <<>>]

\* core.js:417-431.
createNewResult(source, nowtime) ==
  [id |-> nowtime, gatherer |-> source.gatherer, status |-> Status.SUBMITTED,
   label |-> source.label, createdTimestamp |-> nowtime,
   modifiedTimestamp |-> nowtime, errors |-> source.errors,
   sub |-> <<>>]

\* core.js:130.
ConstructorBatchUpdateBuffer(config) ==
  IF config.hasBatchUpdateBuffer /\ config.batchUpdateBuffer # 0
  THEN config.batchUpdateBuffer
  ELSE DefaultBatchUpdateBuffer

\* core.js:214 and 281: options.extensions || Object.keys(this.extensions).
ExtensionNames ==
  IF options.hasExtensions THEN options.extensions
  ELSE [k \in 1..Len(extensions) |-> extensions[k].name]

\* ------------------------------------------------------------- connector
\* The result tabs of the spreadsheet; a tab is kept as its data rows, the
\* rows above them (tabConfig.skipRows) being the non-blank header rows.
Tabs == {"Results-1", "Results-2"}

\* utils/pattern-filter: a filter naming a property keeps the items whose
\* property is truthy.
Satisfies(item, filter) ==
  CASE filter = "selected" -> item.selected
    [] filter = "fake" -> item.hasFake
    [] filter = "appscript.rowIndex===4" -> item.rowIndex = 4
    [] OTHER -> FALSE

\* utils/pattern-filter: the items that satisfy every filter, in order.
patternFilter(items, filters) ==
  SelectSeq(items, LAMBDA item : \A k \in 1..Len(filters) : Satisfies(item, filters[k]))

\* getDataList that returns every row, whatever the filters.
getDataListUnfiltered(rows, opts) == rows

\* sheets-connector.js getDataList: the rows of the tab, filtered.
getDataList(rows, opts) == patternFilter(rows, opts.filters)

\* sheets-connector.js appendDataList: the rows of newItems are written from
\* the row after the last non-blank row of the tab on; opts is not read.
appendDataList(tabs, tabId, newItems, opts) ==
  [t \in DOMAIN tabs |-> IF t = tabId THEN tabs[t] \o newItems ELSE tabs[t]]

\* ---------------------------------------------------------------- inputs
CoreConfigs ==
  {[hasBatchUpdateBuffer |-> FALSE, batchUpdateBuffer |-> 0]}
    \cup {[hasBatchUpdateBuffer |-> TRUE, batchUpdateBuffer |-> b] : b \in 0..MaxBatch}

\* Extension sets as the constructor builds them from coreConfig.extensions.
ExtensionRegistries ==
  { <<Extension("fake", Hooks, {})>>,
    <<Extension("e1", Hooks, Hooks), Extension("e2", Hooks, {})>>,
    <<Extension("e1", {"beforeRun", "afterAllRuns"}, {"beforeRun"}),
      Extension("e2", Hooks, {"afterRun", "beforeAllRuns"})>>,
    <<>> }

ExtensionOptions ==
  { [hasExtensions |-> FALSE, extensions |-> <<>>],
    [hasExtensions |-> TRUE, extensions |-> <<"nope", "e2", "e1">>] }

\* The `gatherer` values of a source given as srcData.
GathererFields ==
  { NoGatherer,
    GathererString(<<>>),
    GathererString(<<"a">>),
    GathererString(<<"a", ",", "b">>),
    GathererString(<<"a", ",">>),
    GathererString(<<"x">>),
    GathererList(<<"a", "b">>),
    GathererList(<<"b", "a", "b">>),
    GathererList(<<"fake">>) }

OptionGatherers ==
  { NoGatherer, GathererString(<<"b">>), GathererList(<<"docai">>) }

\* The options of a run call; destDatasetId is Results-1 when it is given,
\* and filters, overrideResults and multiRowsGatherer are absent.
RunOptions(bySrcDatasetId, srcData, hasDest, gatherer, ext) ==
  [hasSrcDatasetId |-> bySrcDatasetId, srcData |-> srcData,
   hasDestDatasetId |-> hasDest, gatherer |-> gatherer,
   hasExtensions |-> ext.hasExtensions, extensions |-> ext.extensions,
   destDatasetId |-> IF hasDest THEN "Results-1" ELSE "",
   filters |-> <<>>, overrideResults |-> FALSE, multiRowsGatherer |-> "",
   projectId |-> FALSE, processorId |-> FALSE, authorization |-> FALSE]

\* A dataset of n rows that run the fake gatherer; row `bad` (if any) has
\* no `fake` config.
FakeDataset(n, bad) ==
  [k \in 1..n |-> Source(k, GathererString(<<"f", "a", "k", "e">>), k # bad)]

StartState ==
  /\ pc = "idle"
  /\ sources = <<>>
  /\ i = 0
  /\ pending = <<>>
  /\ statuses = <<>>
  /\ newResult = NoResult
  /\ resultsToUpdate = <<>>
  /\ allNewResults = <<>>
  /\ overallErrors = <<>>
  /\ returned = FALSE
  /\ failure = ""
  /\ now = 0
  /\ appended = <<>>
  /\ trace = <<>>

NoExtensionOption == [hasExtensions |-> FALSE, extensions |-> <<>>]

\* run({srcData, destDatasetId, gatherer}) on one source, for every
\* `gatherer` value of the source and of the options.
InitGatherers ==
  /\ coreConfig = [hasBatchUpdateBuffer |-> FALSE, batchUpdateBuffer |-> 0]
  /\ extensions \in {r \in ExtensionRegistries :
                      \A k \in 1..Len(r) : r[k].defines = Hooks}
  /\ dataset = <<>>
  /\ \E g \in GathererFields, og \in OptionGatherers :
       options = RunOptions(FALSE, Source(1, g, TRUE), TRUE, og, NoExtensionOption)
  /\ StartState

\* run({srcData, destDatasetId, extensions}) on one source, for every set of
\* extensions, with and without srcData and destDatasetId.
InitSrcData ==
  /\ coreConfig \in CoreConfigs
  /\ coreConfig.hasBatchUpdateBuffer => coreConfig.batchUpdateBuffer \in {0, 1}
  /\ extensions \in ExtensionRegistries
  /\ dataset = <<>>
  /\ \E g \in {GathererString(<<"a">>), GathererList(<<"fake">>)},
        ext \in ExtensionOptions, hasDest \in BOOLEAN, defined \in BOOLEAN :
       /\ ext.hasExtensions => Len(extensions) = 2
       /\ options = RunOptions(FALSE,
                      IF defined THEN Source(1, g, TRUE) ELSE UndefinedSource,
                      hasDest, NoGatherer, ext)
  /\ StartState

\* run({srcDatasetId, destDatasetId}) on a dataset of the connector, with a
\* batch size given in coreConfig.
InitDataset ==
  /\ coreConfig \in {c \in CoreConfigs :
                      c.hasBatchUpdateBuffer /\ c.batchUpdateBuffer > 0}
  /\ extensions \in ExtensionRegistries
  /\ \E n \in 0..MaxSources, bad \in {0, 2} : dataset = FakeDataset(n, bad)
  /\ options = RunOptions(TRUE, UndefinedSource, TRUE, NoGatherer, NoExtensionOption)
  /\ StartState

\* The same on the engine of the tests (extension `fake`), with no batch
\* size or batch size 0 in coreConfig.
InitLongDataset ==
  /\ coreConfig \in {c \in CoreConfigs :
                      ~c.hasBatchUpdateBuffer \/ c.batchUpdateBuffer = 0}
  /\ extensions = <<Extension("fake", Hooks, {})>>
  /\ \E n \in 0..MaxLongSources : dataset = FakeDataset(n, 0)
  /\ options = RunOptions(TRUE, UndefinedSource, TRUE, NoGatherer, NoExtensionOption)
  /\ StartState

\* A result written by an earlier pass.
EarlierResult(k) ==
  [id |-> 0, gatherer |-> GathererString(<<"t", "e", "s", "t">>),
   status |-> Status.RETRIEVED, label |-> 100 + k, createdTimestamp |-> 0,
   modifiedTimestamp |-> 0, errors |-> <<>>, sub |-> <<>>]

\* A source row of the Sources-1 tab run by the gatherer of the tests.
SheetSource(label, selected) ==
  [Source(label, GathererString(<<"t", "e", "s", "t">>), TRUE)
     EXCEPT !.selected = selected]

\* run({srcDatasetId, destDatasetId, filters, overrideResults}) on the three
\* rows of Sources-1, with the results of earlier passes in the result tabs.
InitConnector ==
  /\ coreConfig \in {c \in CoreConfigs :
                      ~c.hasBatchUpdateBuffer \/ c.batchUpdateBuffer = 2}
  /\ extensions = <<Extension("fake", Hooks, {})>>
  /\ \E sel \in [1..MaxRows -> BOOLEAN] :
       dataset = [k \in 1..MaxRows |-> SheetSource(k, sel[k])]
  /\ \E dest \in Tabs, filters \in {<<>>, <<"selected">>, <<"selected", "fake">>},
        override \in BOOLEAN :
       options = [RunOptions(TRUE, UndefinedSource, TRUE, NoGatherer, NoExtensionOption)
                    EXCEPT !.destDatasetId = dest, !.filters = filters,
                           !.overrideResults = override]
  /\ \E n \in 0..MaxEarlier :
       destination = [t \in Tabs |-> [k \in 1..n |-> EarlierResult(k)]]
  /\ StartState

\* run({srcData, destDatasetId, multiRowsGatherer}) on one source of the
\* gatherer of the tests, with and without multiRowsData.
InitMultiRows ==
  /\ coreConfig \in {c \in CoreConfigs :
                      ~c.hasBatchUpdateBuffer \/ c.batchUpdateBuffer = 1}
  /\ extensions = <<Extension("fake", Hooks, {})>>
  /\ dataset = <<>>
  /\ \E multi \in BOOLEAN, g \in {"", "test"} :
       options = [RunOptions(FALSE, [SheetSource(1, FALSE) EXCEPT !.multiRowsData = multi],
                             TRUE, NoGatherer, NoExtensionOption)
                    EXCEPT !.multiRowsGatherer = g]
  /\ destination = [t \in Tabs |-> <<>>]
  /\ StartState

\* run({gatherer: ['docai'], srcData, destDatasetId, ...}) with and without
\* projectId, processorId and authorization in the options and
\* contentBase64 in the source.
InitDocai ==
  /\ coreConfig = [hasBatchUpdateBuffer |-> FALSE, batchUpdateBuffer |-> 0]
  /\ extensions = <<>>
  /\ dataset = <<>>
  /\ \E content \in BOOLEAN, project \in BOOLEAN, processor \in BOOLEAN,
        auth \in BOOLEAN :
       options = [RunOptions(FALSE,
                             [Source(1, NoGatherer, FALSE) EXCEPT !.contentBase64 = content],
                             TRUE, GathererList(<<"docai">>), NoExtensionOption)
                    EXCEPT !.projectId = project, !.processorId = processor,
                           !.authorization = auth]
  /\ destination = [t \in Tabs |-> <<>>]
  /\ StartState

\* No call on a sheet is being followed.
TabParked ==
  /\ sheetValues = <<>>
  /\ rowIndex = 0
  /\ tabPc = "parked"

\* No execution calls runWithServiceLock.
LockParked ==
  /\ lockHolder = 0
  /\ lockPc = <<>>
  /\ called = {}

\* No recurring or retrieval pass is being followed.
SchedParked ==
  /\ sourcesTab = <<>>
  /\ resultsTab = <<>>
  /\ today = 0
  /\ jobs = <<>>
  /\ passLog = <<>>

\* No run pass is being followed.
PassParked ==
  /\ coreConfig = [hasBatchUpdateBuffer |-> FALSE, batchUpdateBuffer |-> 0]
  /\ batchUpdateBuffer = DefaultBatchUpdateBuffer
  /\ extensions = <<>>
  /\ dataset = <<>>
  /\ options = RunOptions(FALSE, UndefinedSource, FALSE, NoGatherer, NoExtensionOption)
  /\ destination = [t \in Tabs |-> <<>>]
  /\ StartState

Init ==
  /\ \/ /\ InitGatherers \/ InitSrcData \/ InitDataset \/ InitLongDataset
        /\ destination = [t \in Tabs |-> <<>>]
     \/ InitConnector
     \/ InitMultiRows
     \/ InitDocai
  /\ batchUpdateBuffer = ConstructorBatchUpdateBuffer(coreConfig)
  /\ TabParked
  /\ LockParked
  /\ SchedParked

\* --------------------------------------------------------------- actions
\* core.js:213-230: read the sources and run beforeAllRuns.
Run ==
  /\ pc = "idle"
  /\ LET srcs == IF options.hasSrcDatasetId THEN getDataList(dataset, options)
                 ELSE <<options.srcData>>
         ext == runExtensions(extensions, ExtensionNames, "beforeAllRuns")
     IN /\ sources' = srcs
        /\ overallErrors' = ext.errors
        /\ trace' = trace \o HookEvents("beforeAllRuns", ext.calls, 0)
  /\ pc' = "execute"
  /\ UNCHANGED <<otherVars, coreConfig, batchUpdateBuffer, extensions, dataset, options,
                 i, pending, statuses, newResult, resultsToUpdate,
                 allNewResults, returned, failure, now, appended, destination>>

\* The sources for which the beforeRun loop of core.js:288-291 completes:
\* assigning source.errors on an undefined source throws.
BeforeRunReach ==
  LET undef == {k \in 1..Len(sources) : ~sources[k].defined}
  IN IF undef = {} THEN Len(sources)
     ELSE CHOOSE k \in undef : \A m \in undef : k <= m

RECURSIVE BeforeRunEvents(_)
BeforeRunEvents(k) ==
  IF k = 0 THEN <<>>
  ELSE BeforeRunEvents(k - 1)
         \o HookEvents("beforeRun",
                       runExtensions(extensions, ExtensionNames, "beforeRun").calls, k)

\* core.js:280-291: the destDatasetId check and the beforeRun hooks.
ExecuteBegin ==
  /\ pc = "execute"
  /\ IF ~options.hasDestDatasetId
     THEN /\ pc' = "failed"
          /\ failure' = "destDatasetId is missing"
          /\ UNCHANGED <<sources, trace, i>>
     ELSE LET ext == runExtensions(extensions, ExtensionNames, "beforeRun")
              undef == {k \in 1..Len(sources) : ~sources[k].defined}
          IN /\ trace' = trace \o BeforeRunEvents(BeforeRunReach)
             /\ sources' = [k \in 1..Len(sources) |->
                              IF k <= BeforeRunReach /\ sources[k].defined
                              THEN [sources[k] EXCEPT !.errors = ext.errors]
                              ELSE sources[k]]
             /\ IF undef # {}
                THEN /\ pc' = "failed"
                     /\ failure' = "Cannot set properties of undefined (setting 'errors')"
                     /\ i' = i
                ELSE /\ pc' = "source"
                     /\ failure' = failure
                     /\ i' = 1
  /\ UNCHANGED <<otherVars, coreConfig, batchUpdateBuffer, extensions, dataset, options,
                 pending, statuses, newResult, resultsToUpdate, allNewResults,
                 overallErrors, returned, now, appended, destination>>

\* core.js:294-303: the next source, its empty result and its gatherer names.
CreateResult ==
  /\ pc = "source"
  /\ i <= Len(sources)
  /\ \E tick \in {0, 1} :
       /\ now + tick <= MaxClock
       /\ now' = now + tick
       /\ newResult' = createNewResult(sources[i], now')
  /\ statuses' = <<>>
  /\ pending' = Uniq(parseGathererNames(sources[i].gatherer)
                       \o parseGathererNames(options.gatherer))
  /\ pc' = "gatherers"
  /\ UNCHANGED <<otherVars, coreConfig, batchUpdateBuffer, extensions, dataset, options,
                 sources, i, resultsToUpdate, allNewResults, overallErrors,
                 returned, failure, appended, destination, trace>>

\* core.js:304-310: one iteration of the loop over the gatherer names.
RunGatherer ==
  /\ pc = "gatherers"
  /\ pending # <<>>
  /\ LET gathererName == Head(pending)
     IN \E outcome \in (IF getGatherer(gathererName) = "instance"
                        THEN RunOutcomes(sources[i], gathererName, options)
                        ELSE {Throws("")}) :
          LET response == runGatherer(gathererName, outcome)
          IN /\ IF ~response.isNull
                THEN /\ newResult' =
                          [newResult EXCEPT !.sub =
                             [n \in DOMAIN newResult.sub \cup {gathererName} |->
                                IF n = gathererName THEN response
                                ELSE newResult.sub[n]]]
                     /\ statuses' = Append(statuses, response.status)
                ELSE UNCHANGED <<newResult, statuses>>
             /\ trace' = Append(trace, GathererEvent(i, gathererName, outcome))
  /\ pending' = Tail(pending)
  /\ UNCHANGED <<otherVars, coreConfig, batchUpdateBuffer, extensions, dataset, options,
                 pc, sources, i, resultsToUpdate, allNewResults, overallErrors,
                 returned, failure, now, appended, destination>>

\* core.js:312-316: the overall status and the errors of the gatherers.
Finalize ==
  /\ pc = "gatherers"
  /\ pending = <<>>
  /\ LET withStatus == [newResult EXCEPT !.status = getOverallStatus(statuses)]
     IN newResult' = [withStatus EXCEPT !.errors = getOverallErrors(withStatus)]
  /\ trace' = Append(trace, Event("finalized", "", i, "", 0))
  /\ pc' = "afterRun"
  /\ UNCHANGED <<otherVars, coreConfig, batchUpdateBuffer, extensions, dataset, options,
                 sources, i, pending, statuses, resultsToUpdate, allNewResults,
                 overallErrors, returned, failure, now, appended, destination>>

\* An appendDataList failure that is caught, the pass returning normally.
AppendRejectsCaught == pc' = "done" /\ failure' = failure

\* core.js:332,340: `await this.connector.appendDataList(...)` is inside no
\* try block of execute or run, so its failure rejects the pass.
AppendRejects == pc' = "failed" /\ failure' = "appendDataList"

\* AfterRun that pushes the result before it runs the afterRun hooks.
AfterRunPushesFirst ==
  /\ pc = "afterRun"
  /\ LET ext == runExtensions(extensions, ExtensionNames, "afterRun")
         final == [newResult EXCEPT !.errors = newResult.errors \o ext.errors]
     IN /\ newResult' = final
        /\ resultsToUpdate' = Append(resultsToUpdate, final)
        /\ allNewResults' = Append(allNewResults, final)
        /\ trace' = trace \o <<Event("buffered", "", i, "", 0)>>
                          \o HookEvents("afterRun", ext.calls, i)
  /\ pc' = "batch"
  /\ UNCHANGED <<otherVars, coreConfig, batchUpdateBuffer, extensions, dataset, options,
                 sources, i, pending, statuses, overallErrors, returned,
                 failure, now, appended, destination>>

\* core.js:318-327: the afterRun hooks and the two pushes.
AfterRun ==
  /\ pc = "afterRun"
  /\ LET ext == runExtensions(extensions, ExtensionNames, "afterRun")
         final == [newResult EXCEPT !.errors = newResult.errors \o ext.errors]
     IN /\ newResult' = final
        /\ resultsToUpdate' = Append(resultsToUpdate, final)
        /\ allNewResults' = Append(allNewResults, final)
        /\ trace' = trace \o HookEvents("afterRun", ext.calls, i)
                          \o <<Event("buffered", "", i, "", 0)>>
  /\ pc' = "batch"
  /\ UNCHANGED <<otherVars, coreConfig, batchUpdateBuffer, extensions, dataset, options,
                 sources, i, pending, statuses, overallErrors, returned,
                 failure, now, appended, destination>>

\* The batch condition with `>` in place of `>=`.
BufferFullStrict(buffer, limit) == limit # 0 /\ Len(buffer) > limit

\* core.js:330-331: the condition of the batch update.
BufferFull(buffer, limit) == limit # 0 /\ Len(buffer) >= limit

\* BatchUpdate without `resultsToUpdate = []` after the append.
BatchUpdateKeepsBuffer ==
  /\ pc = "batch"
  /\ IF BufferFull(resultsToUpdate, batchUpdateBuffer)
     THEN \E ok \in BOOLEAN :
            /\ trace' = Append(trace, AppendEvent(i, Len(resultsToUpdate), ok))
            /\ IF ok
               THEN /\ appended' = Append(appended, resultsToUpdate)
                    /\ destination' = appendDataList(destination, options.destDatasetId,
                                                       resultsToUpdate, options)
                    /\ resultsToUpdate' = resultsToUpdate
                    /\ pc' = "source"
                    /\ i' = i + 1
                    /\ failure' = failure
               ELSE /\ AppendRejects
                    /\ UNCHANGED <<appended, destination, resultsToUpdate, i>>
     ELSE /\ pc' = "source"
          /\ i' = i + 1
          /\ UNCHANGED <<appended, destination, resultsToUpdate, failure, trace>>
  /\ UNCHANGED <<otherVars, coreConfig, batchUpdateBuffer, extensions, dataset, options,
                 sources, pending, statuses, newResult, allNewResults,
                 overallErrors, returned, now>>

\* core.js:329-337: append the buffer when it is full, then the next source.
\* ok is whether the connector's appendDataList returns or throws.
BatchUpdate ==
  /\ pc = "batch"
  /\ IF BufferFull(resultsToUpdate, batchUpdateBuffer)
     THEN \E ok \in BOOLEAN :
            /\ trace' = Append(trace, AppendEvent(i, Len(resultsToUpdate), ok))
            /\ IF ok
               THEN /\ appended' = Append(appended, resultsToUpdate)
                    /\ destination' = appendDataList(destination, options.destDatasetId,
                                                       resultsToUpdate, options)
                    /\ resultsToUpdate' = <<>>
                    /\ pc' = "source"
                    /\ i' = i + 1
                    /\ failure' = failure
               ELSE /\ AppendRejects
                    /\ UNCHANGED <<appended, destination, resultsToUpdate, i>>
     ELSE /\ pc' = "source"
          /\ i' = i + 1
          /\ UNCHANGED <<appended, destination, resultsToUpdate, failure, trace>>
  /\ UNCHANGED <<otherVars, coreConfig, batchUpdateBuffer, extensions, dataset, options,
                 sources, pending, statuses, newResult, allNewResults,
                 overallErrors, returned, now>>

\* UpdateRemaining that skips the append when nothing remains.
UpdateRemainingSkipsEmpty ==
  /\ pc = "source"
  /\ i > Len(sources)
  /\ \E ok \in (IF resultsToUpdate = <<>> THEN {TRUE} ELSE BOOLEAN) :
       /\ trace' = IF resultsToUpdate = <<>> THEN trace ELSE Append(trace, AppendEvent(0, Len(resultsToUpdate), ok))
       /\ IF ok
          THEN /\ appended' = IF resultsToUpdate = <<>> THEN appended
                              ELSE Append(appended, resultsToUpdate)
               /\ destination' = appendDataList(destination, options.destDatasetId,
                                                resultsToUpdate, options)
               /\ pc' = "executed"
               /\ failure' = failure
          ELSE /\ AppendRejects
               /\ appended' = appended
               /\ destination' = destination
  /\ UNCHANGED <<otherVars, coreConfig, batchUpdateBuffer, extensions, dataset, options,
                 sources, i, pending, statuses, newResult, resultsToUpdate,
                 allNewResults, overallErrors, returned, now>>

\* core.js:339-342: append what remains and return allNewResults.
UpdateRemaining ==
  /\ pc = "source"
  /\ i > Len(sources)
  /\ \E ok \in BOOLEAN :
       /\ trace' = Append(trace, AppendEvent(0, Len(resultsToUpdate), ok))
       /\ IF ok
          THEN /\ appended' = Append(appended, resultsToUpdate)
               /\ destination' = appendDataList(destination, options.destDatasetId,
                                                  resultsToUpdate, options)
               /\ pc' = "executed"
               /\ failure' = failure
          ELSE /\ AppendRejects
               /\ appended' = appended
               /\ destination' = destination
  /\ UNCHANGED <<otherVars, coreConfig, batchUpdateBuffer, extensions, dataset, options,
                 sources, i, pending, statuses, newResult, resultsToUpdate,
                 allNewResults, overallErrors, returned, now>>

RECURSIVE ResultErrors(_)
ResultErrors(results) ==
  IF results = <<>> THEN <<>>
  ELSE Head(results).errors \o ResultErrors(Tail(results))

\* core.js:235-262: collect the errors, run afterAllRuns and return.
AfterAllRuns ==
  /\ pc = "executed"
  /\ LET ext == runExtensions(extensions, ExtensionNames, "afterAllRuns")
     IN /\ overallErrors' = overallErrors \o ResultErrors(allNewResults) \o ext.errors
        /\ trace' = trace \o HookEvents("afterAllRuns", ext.calls, 0)
  /\ returned' = TRUE
  /\ pc' = "done"
  /\ UNCHANGED <<otherVars, coreConfig, batchUpdateBuffer, extensions, dataset, options,
                 sources, i, pending, statuses, newResult, resultsToUpdate,
                 allNewResults, failure, now, appended, destination>>

Next ==
  \/ Run
  \/ ExecuteBegin
  \/ CreateResult
  \/ RunGatherer
  \/ Finalize
  \/ AfterRun
  \/ BatchUpdate
  \/ UpdateRemaining
  \/ AfterAllRuns

Spec == Init /\ [][Next]_vars

\* ------------------------------------------------- appendDataList, sheet
\* The sheets whose last row an appendDataList call looks for: rows with a
\* value (TRUE) and blank rows, as `sheetValues` of getTabLastRow holds them.
Sheets == UNION {[1..n -> BOOLEAN] : n \in 0..MaxSheetRows}

InitLastRow ==
  /\ sheetValues \in Sheets
  /\ rowIndex = 0
  /\ tabPc = "appendDataList"
  /\ PassParked
  /\ LockParked
  /\ SchedParked

\* sheetValues[index] of JavaScript, 0-based: undefined outside the array.
ValueAt(index) ==
  IF index >= 0 /\ index < Len(sheetValues) THEN sheetValues[index + 1] ELSE FALSE

\* sheets-connector.js appendDataList calls getTabLastRow, which starts at
\* `rowIndex = sheetValues.length`.
GetTabLastRow ==
  /\ tabPc = "appendDataList"
  /\ rowIndex' = Len(sheetValues)
  /\ tabPc' = "while"
  /\ UNCHANGED <<passVars, lockVars, schedVars, sheetValues>>

\* One iteration of `while (!sheetValues[rowIndex - 1]) rowIndex--`; the
\* count below zero is followed down to -MaxUnderrun.
LastRowLoop ==
  /\ tabPc = "while"
  /\ ~ValueAt(rowIndex - 1)
  /\ rowIndex > -MaxUnderrun
  /\ rowIndex' = rowIndex - 1
  /\ UNCHANGED <<passVars, lockVars, schedVars, sheetValues, tabPc>>

\* The loop ends and getTabLastRow returns rowIndex.
LastRowReturn ==
  /\ tabPc = "while"
  /\ ValueAt(rowIndex - 1)
  /\ tabPc' = "returned"
  /\ UNCHANGED <<passVars, lockVars, schedVars, sheetValues, rowIndex>>

\* appendDataListExec writes one row after the row getTabLastRow returned.
AppendRow ==
  /\ tabPc = "returned"
  /\ sheetValues' = [k \in 1..(rowIndex + 1) |->
                       IF k <= Len(sheetValues) THEN sheetValues[k] ELSE TRUE]
  /\ tabPc' = "appended"
  /\ UNCHANGED <<passVars, lockVars, schedVars, rowIndex>>

NextLastRow ==
  \/ GetTabLastRow
  \/ LastRowLoop
  \/ LastRowReturn
  \/ AppendRow

\* The call runs on: JavaScript does not stop while a step is possible.
SpecLastRow == InitLastRow /\ [][NextLastRow]_vars /\ WF_vars(NextLastRow)

\* --------------------------------------------------- runWithServiceLock
\* The script executions that call runWithServiceLock at the same time.
Executions == 1..MaxExecutions

\* Each execution calls runWithServiceLock(funcName, callback), with or
\* without a callback; the script lock is free.
InitLock ==
  /\ lockHolder = 0
  /\ lockPc \in [Executions -> {"call", "noCallback"}]
  /\ called = {}
  /\ PassParked
  /\ TabParked
  /\ SchedParked

\* main.gs:172, `if (!callback) return;`.
NoCallback(e) ==
  /\ lockPc[e] = "noCallback"
  /\ lockPc' = [lockPc EXCEPT ![e] = "returned"]
  /\ UNCHANGED <<passVars, tabVars, schedVars, lockHolder, called>>

\* main.gs:174-180: tryLock(100) gets the lock if it is free or freed within
\* the wait, else runWithServiceLock logs and returns.
TryLock(e) ==
  /\ lockPc[e] = "call"
  /\ IF lockHolder = 0
     THEN /\ lockHolder' = e
          /\ lockPc' = [lockPc EXCEPT ![e] = "locked"]
     ELSE /\ lockPc' = [lockPc EXCEPT ![e] = "returned"]
          /\ lockHolder' = lockHolder
  /\ UNCHANGED <<passVars, tabVars, schedVars, called>>

\* main.gs:182, `callback();`: the callback returns or throws, and a throw
\* leaves runWithServiceLock at once.
Callback(e) ==
  /\ lockPc[e] = "locked"
  /\ called' = called \cup {e}
  /\ \E throws \in BOOLEAN :
       lockPc' = [lockPc EXCEPT ![e] = IF throws THEN "thrown" ELSE "release"]
  /\ UNCHANGED <<passVars, tabVars, schedVars, lockHolder>>

\* main.gs:183, `lock.releaseLock();`.
ReleaseLock(e) ==
  /\ lockPc[e] = "release"
  /\ lockHolder' = 0
  /\ lockPc' = [lockPc EXCEPT ![e] = "returned"]
  /\ UNCHANGED <<passVars, tabVars, schedVars, called>>

NextLock ==
  \/ \E e \in Executions : NoCallback(e)
  \/ \E e \in Executions : TryLock(e)
  \/ \E e \in Executions : Callback(e)
  \/ \E e \in Executions : ReleaseLock(e)

SpecLock == InitLock /\ [][NextLock]_vars

\* ------------------------------------------ recurring and retrieval passes
\* The header rows above the data rows of a tab (tabConfig.skipRows of the
\* Sources-1 and Results-1 tabs).
SkipRows == 3

\* A timestamp cell that is null or absent.
NoTimestamp == -1

\* common/frequency: the frequencies a source row can carry, "" for none,
\* and the duration of each in days, the unit of today.
Frequencies == {"daily"}
FrequencyInDays(frequency) == IF frequency = "daily" THEN 1 ELSE 0

SourceRow(label, frequency, nextTriggerTimestamp) ==
  [label |-> label, frequency |-> frequency,
   nextTriggerTimestamp |-> nextTriggerTimestamp]

ResultRow(id, type, status, label) ==
  [id |-> id, type |-> type, status |-> status, label |-> label]

\* getDataList that counts the rows from the first data row.
WithRowIndexFromOne(rows) ==
  [k \in 1..Len(rows) |-> [rowIndex |-> k, item |-> rows[k]]]

\* sheets-connector.js getDataList: every data row becomes an item that
\* carries appscript.rowIndex, the row of the sheet it was read from.
WithRowIndex(rows) ==
  [k \in 1..Len(rows) |-> [rowIndex |-> k + SkipRows, item |-> rows[k]]]

\* updateDataList that adds the items after the rows of the tab.
updateDataListAppends(rows, newItems) ==
  rows \o [k \in 1..Len(newItems) |-> newItems[k].item]

\* sheets-connector.js updateDataList: every item is written to the row
\* item.appscript.rowIndex of the tab; an empty list writes nothing.
updateDataList(rows, newItems) ==
  IF Len(newItems) = 0 THEN rows
  ELSE [k \in 1..Len(rows) |->
          LET writers == {j \in 1..Len(newItems) : newItems[j].rowIndex = k + SkipRows}
          IN IF writers = {} THEN rows[k]
             ELSE newItems[CHOOSE j \in writers : \A other \in writers : other <= j].item]

\* The rows an updateDataList call writes.
WrittenRows(newItems) == {newItems[j].rowIndex : j \in 1..Len(newItems)}

\* The options of a pass on the tabs.
PassOptions == [filters : {<<>>, <<"appscript.rowIndex===4">>}, activateOnly : BOOLEAN]

\* isDue(source, now) of the recurring pass.
isDue(source, t) ==
  /\ source.frequency # ""
  /\ \/ source.nextTriggerTimestamp = NoTimestamp
     \/ source.nextTriggerTimestamp <= t

\* The reschedule step: the time of the pass plus the frequency's duration.
Reschedule(source, t) ==
  [source EXCEPT !.nextTriggerTimestamp = t + FrequencyInDays(source.frequency)]

\* The Execution Engine on the tabs: one result per item, in order, with the
\* id createNewResult gives (Date.now()) and the status of a gatherer whose
\* run only submits the work.
NewResults(items, type, t) ==
  [k \in 1..Len(items) |-> ResultRow(t, type, Status.SUBMITTED, items[k].item.label)]

\* One entry of passLog.
PassEntry(op, opts, read, invoked, polled, written, sourcesAfter, resultsAfter) ==
  [op |-> op, activateOnly |-> opts.activateOnly, filters |-> opts.filters,
   start |-> today, read |-> read, invoked |-> invoked, polled |-> polled,
   written |-> written, jobsBefore |-> jobs,
   sourcesBefore |-> sourcesTab, sourcesAfter |-> sourcesAfter,
   resultsBefore |-> resultsTab, resultsAfter |-> resultsAfter]

Labels(items) == [k \in 1..Len(items) |-> items[k].item.label]

\* What the service of the gatherer reports for a job.
JobStatus(job) ==
  CASE job = "done" -> Status.RETRIEVED
    [] job = "failed" -> Status.ERROR
    [] OTHER -> Status.SUBMITTED

\* The source rows a pass can find: rows without a frequency, and rows with
\* a frequency and no, a past, a present or a future nextTriggerTimestamp.
SourceRows(label) ==
  {SourceRow(label, "", NoTimestamp)}
    \cup {SourceRow(label, f, next) :
            f \in Frequencies, next \in {NoTimestamp} \cup 0..MaxTime}

InitRecurring ==
  /\ \E n \in 1..MaxSchedRows :
       sourcesTab \in {rows \in [1..n -> UNION {SourceRows(k) : k \in 1..n}] :
                         \A k \in 1..n : rows[k].label = k}
  /\ resultsTab = <<>>
  /\ jobs = <<>>
  /\ today = 0
  /\ passLog = <<>>
  /\ PassParked
  /\ TabParked
  /\ LockParked

\* core.recurring(options): snapshot the time, read the sources, keep the due
\* ones, run the engine on them unless activateOnly, reschedule them and
\* write them back through updateDataList.
RecurringPass(opts) ==
  /\ Len(passLog) < MaxPasses
  /\ LET t == today
         items == getDataList(WithRowIndex(sourcesTab), opts)
         due == SelectSeq(items, LAMBDA it : isDue(it.item, t))
         created == IF opts.activateOnly THEN <<>> ELSE NewResults(due, "recurring", t)
         rescheduled == [k \in 1..Len(due) |->
                           [due[k] EXCEPT !.item = Reschedule(due[k].item, t)]]
         resultsAfter == appendDataList([tab \in {"Results-1"} |-> resultsTab],
                                        "Results-1", created, opts)["Results-1"]
         sourcesAfter == updateDataList(sourcesTab, rescheduled)
     IN /\ resultsTab' = resultsAfter
        /\ sourcesTab' = sourcesAfter
        /\ jobs' = jobs \o [k \in 1..Len(created) |-> "pending"]
        /\ passLog' = Append(passLog,
             PassEntry("recurring", opts, Labels(items),
                       IF opts.activateOnly THEN <<>> ELSE Labels(due),
                       {}, {}, sourcesAfter, resultsAfter))
  /\ UNCHANGED <<passVars, tabVars, lockVars, today>>

\* core.run(options) on the tabs: one result of type "single" per source
\* read; the sources are not written.
RunPass(opts) ==
  /\ Len(passLog) < MaxPasses
  /\ ~opts.activateOnly
  /\ LET items == getDataList(WithRowIndex(sourcesTab), opts)
         created == NewResults(items, "single", today)
         resultsAfter == appendDataList([tab \in {"Results-1"} |-> resultsTab],
                                        "Results-1", created, opts)["Results-1"]
     IN /\ resultsTab' = resultsAfter
        /\ jobs' = jobs \o [k \in 1..Len(created) |-> "pending"]
        /\ passLog' = Append(passLog,
             PassEntry("run", opts, Labels(items), Labels(items), {}, {},
                       sourcesTab, resultsAfter))
  /\ UNCHANGED <<passVars, tabVars, lockVars, sourcesTab, today>>

\* A day passes.
Tick ==
  /\ today < MaxTime
  /\ today' = today + 1
  /\ UNCHANGED <<passVars, tabVars, lockVars, sourcesTab, resultsTab, jobs, passLog>>

NextRecurring ==
  \/ \E opts \in PassOptions : RecurringPass(opts)
  \/ \E opts \in PassOptions : RunPass(opts)
  \/ Tick

SpecRecurring == InitRecurring /\ [][NextRecurring]_vars

\* gatherer.js:53-55, retrieveBatchAsync of the base class: null, no status
\* for any result.
retrieveBatchAsync(results) == [isNull |-> TRUE, statuses |-> <<>>]

\* retrieveBatch of a gatherer that polls its service: one status per result
\* of the group, in order.
PollingRetrieveBatch(results) ==
  [isNull |-> FALSE,
   statuses |-> [k \in 1..Len(results) |-> JobStatus(jobs[results[k].rowIndex - SkipRows])]]

\* The results of the Results tab that are not yet RETRIEVED or ERROR.
NotYetComplete(items) ==
  SelectSeq(items, LAMBDA it : it.item.status \notin {Status.RETRIEVED, Status.ERROR})

\* The per-item statuses of a response merged into the polled results.
MergeStatuses(polled, response) ==
  [k \in 1..Len(polled) |->
     IF response.isNull THEN polled[k]
     ELSE [polled[k] EXCEPT !.item.status = response.statuses[k]]]

\* The result rows earlier passes left: submitted and still pending at the
\* service, submitted and finished or failed there since, retrieved, failed.
StoredResults(k) ==
  {[row |-> ResultRow(k, "single", Status.SUBMITTED, k), job |-> j] :
     j \in {"pending", "done", "failed"}}
    \cup {[row |-> ResultRow(k, "recurring", Status.RETRIEVED, k), job |-> "done"],
          [row |-> ResultRow(k, "single", Status.ERROR, k), job |-> "failed"]}

InitRetrieve ==
  /\ \E n \in 1..MaxStored :
       \E stored \in [1..n -> UNION {StoredResults(k) : k \in 1..n}] :
         /\ \A k \in 1..n : stored[k].row.id = k
         /\ resultsTab = [k \in 1..n |-> stored[k].row]
         /\ jobs = [k \in 1..n |-> stored[k].job]
  /\ sourcesTab = <<>>
  /\ today = 0
  /\ passLog = <<>>
  /\ PassParked
  /\ TabParked
  /\ LockParked

\* core.retrieve(options): read the results, keep those not yet RETRIEVED or
\* ERROR, poll the gatherer once with all of them, merge the statuses it
\* returns and write the polled results back through updateDataList.
RetrievePass(opts) ==
  /\ Len(passLog) < MaxPasses
  /\ ~opts.activateOnly
  /\ LET items == getDataList(WithRowIndex(resultsTab), opts)
         polled == NotYetComplete(items)
     IN \E response \in {retrieveBatchAsync(polled), PollingRetrieveBatch(polled)} :
          LET merged == MergeStatuses(polled, response)
              resultsAfter == updateDataList(resultsTab, merged)
          IN /\ resultsTab' = resultsAfter
             /\ passLog' = Append(passLog,
                  PassEntry("retrieve", opts, Labels(items), <<>>,
                            WrittenRows(polled), WrittenRows(merged),
                            sourcesTab, resultsAfter))
  /\ UNCHANGED <<passVars, tabVars, lockVars, sourcesTab, today, jobs>>

\* The service of the gatherer finishes a job, or the job fails there.
JobProgress ==
  /\ \E k \in 1..Len(jobs) :
       /\ jobs[k] = "pending"
       /\ \E outcome \in {"done", "failed"} : jobs' = [jobs EXCEPT ![k] = outcome]
  /\ UNCHANGED <<passVars, tabVars, lockVars, sourcesTab, resultsTab, today, passLog>>

NextRetrieve ==
  \/ \E opts \in PassOptions : RetrievePass(opts)
  \/ JobProgress

SpecRetrieve == InitRetrieve /\ [][NextRetrieve]_vars

\* ------------------------------------------------------------ properties
RECURSIVE Flatten(_)
Flatten(batches) ==
  IF batches = <<>> THEN <<>>
  ELSE Head(batches) \o Flatten(Tail(batches))

\* execute returned: every source was processed and every append returned.
PassExecuted == pc \in {"executed", "done"}

\* C1: for every non-empty sequence S of gatherer statuses reduced by the
\* pass, the overall status is RETRIEVED iff every element of S is RETRIEVED,
\* ERROR iff not every element is RETRIEVED and some element is ERROR, and
\* SUBMITTED otherwise.
C1_OverallStatus ==
  (pc \in {"afterRun", "batch"} /\ statuses # <<>>) =>
    LET allRetrieved == \A k \in 1..Len(statuses) : statuses[k] = Status.RETRIEVED
        someError == \E k \in 1..Len(statuses) : statuses[k] = Status.ERROR
    IN /\ newResult.status = Status.RETRIEVED <=> allRetrieved
       /\ newResult.status = Status.ERROR <=> (~allRetrieved /\ someError)
       /\ newResult.status = Status.SUBMITTED <=> (~allRetrieved /\ ~someError)

\* A reduction of three statuses where ERROR wins over SUBMITTED and RETRIEVED.
C1_Witness ==
  /\ pc = "afterRun"
  /\ statuses = <<Status.RETRIEVED, Status.SUBMITTED, Status.ERROR>>
  /\ newResult.status = Status.ERROR

\* C2 as stated: a pass over N sources with batch size B > 0 makes exactly
\* ceil(N/B) appendDataList calls.
C2_CeilAppendCalls ==
  (PassExecuted /\ batchUpdateBuffer > 0) =>
    Len(appended) = (Len(sources) + batchUpdateBuffer - 1) \div batchUpdateBuffer

\* C2 amended: a pass over N sources with batch size B > 0 whose appends all
\* return makes exactly floor(N/B) + 1 appendDataList calls: one per full
\* batch and the terminating one.
C2_AppendCalls ==
  (PassExecuted /\ batchUpdateBuffer > 0) =>
    Len(appended) = (Len(sources) \div batchUpdateBuffer) + 1

\* Two full batches and an empty terminating call.
C2_Witness ==
  /\ pc = "done"
  /\ batchUpdateBuffer = 2
  /\ Len(sources) = 4
  /\ Len(appended) = 3

\* C3: the items of the append calls, concatenated in call order, are the
\* result list of the pass, one result per source in source order, nothing
\* twice and nothing left out; every append call followed by another one
\* carries exactly B items.
C3_AppendedIsResultList ==
  /\ batchUpdateBuffer > 0 =>
       /\ Flatten(appended) \o (IF PassExecuted THEN <<>> ELSE resultsToUpdate)
            = allNewResults
       /\ \A c \in 1..Len(appended) :
            c < Len(appended) => Len(appended[c]) = batchUpdateBuffer
  /\ (PassExecuted /\ batchUpdateBuffer > 0) =>
       /\ Flatten(appended) = allNewResults
       /\ Len(allNewResults) = Len(sources)
       /\ \A k \in 1..Len(sources) :
            /\ allNewResults[k].label = sources[k].label
            /\ allNewResults[k].gatherer = sources[k].gatherer

\* Seven sources with batch size 3: calls of 3, 3 and 1 items.
C3_Witness ==
  /\ pc = "done"
  /\ batchUpdateBuffer = 3
  /\ Len(sources) = 7
  /\ [c \in 1..Len(appended) |-> Len(appended[c])] = <<3, 3, 1>>

\* C4 as stated: with batchUpdateBuffer: 0 in coreConfig a pass makes exactly
\* one appendDataList call, after the last source, holding all N results.
C4_ZeroMeansOneAppend ==
  (PassExecuted /\ coreConfig.hasBatchUpdateBuffer /\ coreConfig.batchUpdateBuffer = 0) =>
    /\ Len(appended) = 1
    /\ appended[1] = allNewResults

\* C5: a pass that processed all its sources ends with an appendDataList
\* call made after the last source was buffered, carrying what remained in
\* the buffer, also when nothing remained.
C5_TerminatingAppend ==
  /\ (pc = "failed" /\ failure = "appendDataList") =>
       /\ trace[Len(trace)].ev = "append"
       /\ trace[Len(trace)].n = Len(resultsToUpdate)
  /\ pc = "executed" =>
    /\ \A s \in 1..Len(sources) :
         \E k \in 1..Len(trace) : trace[k].ev = "buffered" /\ trace[k].src = s
    /\ trace # <<>>
    /\ trace[Len(trace)].ev = "append"
    /\ trace[Len(trace)].src = 0
    /\ trace[Len(trace)].n = Len(resultsToUpdate)
    /\ appended # <<>>
    /\ appended[Len(appended)] = resultsToUpdate
    /\ Flatten(SubSeq(appended, 1, Len(appended) - 1)) \o resultsToUpdate = allNewResults

\* Two sources with batch size 2: the terminating call is empty.
C5_Witness ==
  /\ pc = "executed"
  /\ Len(sources) = 2
  /\ batchUpdateBuffer = 2
  /\ resultsToUpdate = <<>>
  /\ Len(appended) = 2
  /\ appended[2] = <<>>

\* Names of ExtensionNames that are registered with all four hooks.
FullExtensions ==
  {extensions[k].name : k \in {m \in 1..Len(extensions) :
      extensions[m].defines = Hooks /\ extensions[m].name \in Range(ExtensionNames)}}

HookCalls(functionName, extName, src) ==
  {k \in 1..Len(trace) : /\ trace[k].ev = functionName
                         /\ trace[k].ext = extName
                         /\ trace[k].src = src}

EventsAt(ev, src) == {k \in 1..Len(trace) : trace[k].ev = ev /\ trace[k].src = src}

\* C6: for an extension with all four hooks, beforeAllRuns runs once before
\* any source is processed; beforeRun once per source, before any gatherer of
\* that source; afterRun once per source, after its status and errors are
\* computed and before it is buffered; afterAllRuns once, after the last
\* afterRun and after the final append.
C6_HookTrace ==
  \A e \in FullExtensions :
    /\ Cardinality(HookCalls("beforeAllRuns", e, 0)) = IF pc = "idle" THEN 0 ELSE 1
    /\ \A k \in HookCalls("beforeAllRuns", e, 0) :
         \A m \in 1..Len(trace) : trace[m].ev # "beforeAllRuns" => k < m
    /\ Cardinality(HookCalls("afterAllRuns", e, 0)) = IF pc = "done" THEN 1 ELSE 0
    /\ \A k \in HookCalls("afterAllRuns", e, 0) :
         /\ \A m \in 1..Len(trace) : trace[m].ev # "afterAllRuns" => m < k
         /\ \E m \in EventsAt("append", 0) : m < k
    /\ \A s \in 1..Len(sources) :
         /\ Cardinality(HookCalls("beforeRun", e, s)) <= 1
         /\ Cardinality(HookCalls("afterRun", e, s)) <= 1
         /\ \A g \in EventsAt("gatherer", s) :
              \E k \in HookCalls("beforeRun", e, s) : k < g
         /\ \A f \in EventsAt("finalized", s) :
              \E k \in HookCalls("beforeRun", e, s) : k < f
         /\ \A k \in HookCalls("afterRun", e, s) :
              /\ \E f \in EventsAt("finalized", s) : f < k
              /\ \A g \in EventsAt("gatherer", s) : g < k
         /\ \A b \in EventsAt("buffered", s) :
              \E k \in HookCalls("afterRun", e, s) : k < b
         /\ pc = "done" =>
              /\ Cardinality(HookCalls("beforeRun", e, s)) = 1
              /\ Cardinality(HookCalls("afterRun", e, s)) = 1

\* A completed pass over three sources with the four-hook extension `fake`.
C6_Witness ==
  /\ pc = "done"
  /\ Len(sources) = 3
  /\ "fake" \in FullExtensions
  /\ Cardinality({k \in 1..Len(trace) : trace[k].ext = "fake"}) = 8

IsRegistered(extName) == \E k \in 1..Len(extensions) : extensions[k].name = extName
ExtensionNamed(extName) ==
  extensions[CHOOSE k \in 1..Len(extensions) : extensions[k].name = extName]

\* The extensions a hook must reach, and those of them that throw.
MustCall(functionName) ==
  SelectSeq(ExtensionNames,
            LAMBDA n : IsRegistered(n) /\ functionName \in ExtensionNamed(n).defines)
MustReport(functionName) ==
  LET threw == SelectSeq(MustCall(functionName),
                         LAMBDA n : functionName \in ExtensionNamed(n).throws)
  IN [k \in 1..Len(threw) |-> HookError(threw[k], functionName)]

CalledExtensions(functionName, src) ==
  LET events == SelectSeq(trace, LAMBDA e : e.ev = functionName /\ e.src = src)
  IN [k \in 1..Len(events) |-> events[k].ext]

IsSuffix(suffix, s) ==
  /\ Len(suffix) <= Len(s)
  /\ SubSeq(s, Len(s) - Len(suffix) + 1, Len(s)) = suffix

\* The reasons a pass rejects with that are not a hook's or a gatherer's.
OtherFailures ==
  {"destDatasetId is missing", "Cannot set properties of undefined (setting 'errors')",
   "appendDataList"}

\* C7: a hook that throws is caught and its error returned, the hook still
\* runs on every later extension of the list, the pass goes on; names that
\* are not registered or lack the hook are skipped without an error.
C7_HookErrorsCollected ==
  /\ pc # "idle" => CalledExtensions("beforeAllRuns", 0) = MustCall("beforeAllRuns")
  /\ pc = "execute" => overallErrors = MustReport("beforeAllRuns")
  /\ pc \in {"source", "gatherers", "afterRun", "batch", "executed", "done"} =>
       \A s \in 1..Len(sources) :
         /\ CalledExtensions("beforeRun", s) = MustCall("beforeRun")
         /\ sources[s].errors = MustReport("beforeRun")
  /\ \A s \in 1..Len(allNewResults) :
       /\ CalledExtensions("afterRun", s) = MustCall("afterRun")
       /\ IsSuffix(MustReport("afterRun"), allNewResults[s].errors)
  /\ pc = "done" =>
       /\ CalledExtensions("afterAllRuns", 0) = MustCall("afterAllRuns")
       /\ IsSuffix(MustReport("afterAllRuns"), overallErrors)
  /\ pc = "failed" => failure \in OtherFailures

\* e1 throws in every hook, e2 is still called after it, nope is skipped,
\* and the pass completes.
C7_Witness ==
  /\ pc = "done"
  /\ options.hasExtensions
  /\ options.extensions = <<"nope", "e2", "e1">>
  /\ \E k \in 1..Len(extensions) : extensions[k].name = "e1" /\ extensions[k].throws = Hooks
  /\ CalledExtensions("afterRun", 1) = <<"e2", "e1">>
  /\ overallErrors # <<>>

\* A gatherer run whose resolution failed or whose run threw.
GathererFailed(e) ==
  /\ e.ev = "gatherer"
  /\ e.name = "" \/ e.name \notin RegisteredGatherers \/ e.outcome.throws

ExceptionMessage(e) ==
  IF e.name = "" THEN "Cannot read properties of null (reading 'run')"
  ELSE IF e.name \notin RegisteredGatherers
       THEN "Unable to load gatherer: ./gatherers/" \o e.name
       ELSE e.outcome.message

\* The result that holds the sub-results of source src.
OwningResult(src) ==
  IF src <= Len(allNewResults) THEN allNewResults[src] ELSE newResult

\* C8: when resolving a gatherer fails or its run throws, the response is
\* {status: ERROR, statusText: message, errors: [exception]}; the exception
\* does not leave runGatherer and the pass goes on.
C8_GathererFailureIsResponse ==
  /\ \A k \in 1..Len(trace) :
       GathererFailed(trace[k]) =>
         LET sub == OwningResult(trace[k].src).sub
             message == ExceptionMessage(trace[k])
         IN /\ trace[k].name \in DOMAIN sub
            /\ sub[trace[k].name].status = Status.ERROR
            /\ sub[trace[k].name].statusText = message
            /\ sub[trace[k].name].errors = ErrorList(<<Err(message)>>)
  /\ pc = "failed" => failure \in OtherFailures

\* The fake gatherer throws for source 2 and source 3 is still run.
C8_Witness ==
  /\ pc = "done"
  /\ Len(sources) = 3
  /\ \E k \in 1..Len(trace) : GathererFailed(trace[k]) /\ trace[k].src = 2
  /\ allNewResults[2].status = Status.ERROR
  /\ allNewResults[3].status = Status.RETRIEVED

\* C9 as stated: every failed gatherer run, whether its name came from
\* source.gatherer or only from options.gatherer, gives an ERROR sub-result
\* and a string "[name] message" in the errors of the owning result.
C9_FailureInResultErrors ==
  \A k \in 1..Len(trace) :
    (GathererFailed(trace[k]) /\ trace[k].src <= Len(allNewResults)) =>
      LET result == allNewResults[trace[k].src]
      IN /\ trace[k].name \in DOMAIN result.sub
         /\ result.sub[trace[k].name].status = Status.ERROR
         /\ Str("[" \o trace[k].name \o "] " \o ExceptionMessage(trace[k]))
              \in Range(result.errors)

\* The message of an errors entry: its message, or the entry as text.
MessageOf(e) == IF e.kind = "null" THEN "null" ELSE e.text

RECURSIVE ErrorStrings(_, _)
ErrorStrings(names, sub) ==
  IF names = <<>> THEN <<>>
  ELSE LET items == IF Head(names) \in DOMAIN sub
                    THEN sub[Head(names)].errors.items ELSE <<>>
       IN [k \in 1..Len(items) |->
             Str("[" \o Head(names) \o "] " \o MessageOf(items[k]))]
            \o ErrorStrings(Tail(names), sub)

TaggedErrors(result) ==
  UNION {UNION {{Str("[" \o n \o "] " \o MessageOf(e)),
                 Str("[" \o n \o "] " \o StringOf(e))} :
                  e \in Range(result.sub[n].errors.items)} :
           n \in DOMAIN result.sub}

\* C11 as stated: in every result of a pass every entry of result.errors is
\* a string "[name] message", name being the gatherer that produced the
\* error, also when beforeRun or afterRun hooks fail for the source.
C11_ErrorsAreTagged ==
  \A s \in 1..Len(allNewResults) :
    \A k \in 1..Len(allNewResults[s].errors) :
      /\ allNewResults[s].errors[k].kind = "string"
      /\ allNewResults[s].errors[k] \in TaggedErrors(allNewResults[s])

\* C12 as stated: the error of a beforeRun hook that failed for a source is
\* in the errors of the result of that source when the result is written.
C12_BeforeRunErrorInResult ==
  \A b \in 1..Len(appended) :
    \A k \in 1..Len(appended[b]) :
      Range(MustReport("beforeRun")) \subseteq Range(appended[b][k].errors)

\* The errors of the gatherers of a result: those of its sub-results.
GathererErrors(result) ==
  UNION {Range(result.sub[n].errors.items) : n \in DOMAIN result.sub}

\* The text an error is reported by: an Error by its message, as itself or
\* inside a string "[name] message".
Reports(entry, e) ==
  \/ entry = e
  \/ entry.kind = "string" /\ \E n \in RegisteredGatherers \cup {"", "x"} :
       entry.text = "[" \o n \o "] " \o MessageOf(e)

\* C13 as stated: a completed pass returns {sources, results, errors}, errors
\* holding every error raised by every hook call of the pass and every
\* gatherer error of every result; the errors do not keep the pass from
\* returning every result.
C13_AllErrorsReturned ==
  pc = "done" =>
    /\ returned
    /\ Len(allNewResults) = Len(sources)
    /\ \A h \in {"beforeAllRuns", "afterAllRuns"} :
         Range(MustReport(h)) \subseteq Range(overallErrors)
    /\ sources # <<>> =>
         \A h \in {"beforeRun", "afterRun"} :
           Range(MustReport(h)) \subseteq Range(overallErrors)
    /\ \A s \in 1..Len(allNewResults) :
         \A e \in GathererErrors(allNewResults[s]) :
           \E k \in 1..Len(overallErrors) : Reports(overallErrors[k], e)

\* The appendDataList calls of the pass that threw.
FailedAppends ==
  {k \in 1..Len(trace) : trace[k].ev = "append" /\ trace[k].outcome.throws}

\* C14: a failing appendDataList rejects the pass: the failure is not caught
\* and is no entry of the errors list, nothing is processed after it, and
\* the batches appended before it stay in the destination.
C14_AppendFailurePropagates ==
  /\ \A k \in FailedAppends :
       /\ k = Len(trace)
       /\ pc = "failed"
       /\ failure = "appendDataList"
       /\ ~returned
       /\ \A m \in 1..Len(overallErrors) : overallErrors[m] # Err("appendDataList")
       /\ Len(resultsToUpdate) = trace[k].n
       /\ Flatten(appended) \o resultsToUpdate = allNewResults
       /\ Len(appended) =
            Cardinality({m \in 1..Len(trace) : trace[m].ev = "append"}) - 1
  /\ (pc = "failed" /\ failure = "appendDataList") => FailedAppends # {}

\* The append after a later batch fails: an earlier batch is in the
\* destination and sources are left unprocessed.
C14_Witness ==
  /\ pc = "failed"
  /\ failure = "appendDataList"
  /\ FailedAppends # {}
  /\ appended # <<>>
  /\ Len(appended[1]) = batchUpdateBuffer
  /\ Len(allNewResults) < Len(sources)

\* The finalized results that no appendDataList call has been given yet.
Unflushed ==
  IF PassExecuted THEN Len(allNewResults) - Len(Flatten(appended))
  ELSE Len(resultsToUpdate)

\* C15: with batch size B > 0, at every point of a pass at most B finalized
\* results have not yet been passed to an appendDataList call.
C15_UnflushedAtMostBatch ==
  batchUpdateBuffer > 0 =>
    /\ Unflushed <= batchUpdateBuffer
    /\ Len(resultsToUpdate) <= batchUpdateBuffer
    /\ ~PassExecuted => Flatten(appended) \o resultsToUpdate = allNewResults

\* The buffer holds a whole batch after an earlier batch was flushed.
C15_Witness ==
  /\ pc = "batch"
  /\ batchUpdateBuffer > 1
  /\ Len(resultsToUpdate) = batchUpdateBuffer
  /\ appended # <<>>

\* C16 as stated: the engine never reduces an empty status list, and a source
\* given no gatherer name by source.gatherer or options.gatherer never gets
\* a result with status RETRIEVED and an empty errors list.
C16_NoGathererIsError ==
  pc = "afterRun" =>
    /\ statuses # <<>>
    /\ (sources[i].gatherer = NoGatherer /\ options.gatherer = NoGatherer) =>
         ~(newResult.status = Status.RETRIEVED /\ newResult.errors = <<>>)

\* C17 as stated: for every input of run the pass returns or fails only
\* because a connector call failed; no run fails for missing configuration.
C17_OnlyConnectorAborts ==
  pc = "failed" => failure = "appendDataList"

\* A row satisfies the filters of the run: every property they name is set.
Matches(row) ==
  /\ "selected" \in Range(options.filters) => row.selected
  /\ "fake" \in Range(options.filters) => row.hasFake
  /\ Range(options.filters) \subseteq {"selected", "fake"}

\* The labels of the rows of the source dataset that satisfy the filters.
MatchingLabels ==
  LET rows == SelectSeq(dataset, Matches)
  IN [k \in 1..Len(rows) |-> rows[k].label]

\* A row of a result tab that an earlier pass wrote.
IsEarlier(row) == row.label > 100

\* C18: run on a source dataset with filters processes exactly the rows that
\* satisfy every filter, one result each; the results are appended to the
\* named destination in source order and no other dataset is written; three
\* rows, two of them selected, and filter ['selected'] give two results.
C18_FilteredSourcesWritten ==
  /\ options.hasSrcDatasetId =>
       /\ \A t \in Tabs \ {options.destDatasetId} :
            \A k \in 1..Len(destination[t]) : IsEarlier(destination[t][k])
       /\ pc \notin {"idle"} =>
            [k \in 1..Len(sources) |-> sources[k].label] = MatchingLabels
       /\ PassExecuted =>
            LET written == SelectSeq(destination[options.destDatasetId],
                                     LAMBDA r : ~IsEarlier(r))
                before == SelectSeq(destination[options.destDatasetId], IsEarlier)
            IN /\ [k \in 1..Len(written) |-> written[k].label] = MatchingLabels
               /\ written = allNewResults
               /\ destination[options.destDatasetId] = before \o written
  /\ ( /\ PassExecuted
       /\ options.hasSrcDatasetId
       /\ options.filters = <<"selected">>
       /\ Len(dataset) = 3
       /\ Cardinality({k \in 1..3 : dataset[k].selected}) = 2 )
     => Len(allNewResults) = 2

\* The scenario: rows 1 and 3 of three are selected, filter ['selected'],
\* destination Results-2 that already holds two results.
C18_Witness ==
  /\ pc = "done"
  /\ options.filters = <<"selected">>
  /\ options.destDatasetId = "Results-2"
  /\ Len(dataset) = 3
  /\ dataset[1].selected /\ ~dataset[2].selected /\ dataset[3].selected
  /\ Len(destination["Results-2"]) = 4
  /\ Len(destination["Results-1"]) = 2
  /\ destination["Results-2"][3].label = 1
  /\ destination["Results-2"][4].label = 3

\* C19 as stated: a pass with overrideResults over N sources leaves exactly
\* its N results in the destination, the results of earlier passes removed
\* and every batch of the pass kept; without overrideResults the N results
\* follow the existing ones, which are unchanged.
C19_OverrideResults ==
  (PassExecuted /\ options.hasDestDatasetId) =>
    LET rows == destination[options.destDatasetId]
        before == SelectSeq(rows, IsEarlier)
    IN IF options.overrideResults
       THEN rows = allNewResults
       ELSE /\ rows = before \o allNewResults
            /\ before = [k \in 1..Len(before) |-> EarlierResult(k)]

\* The data arrays that gatherer g returned for source src.
DataLists(src, g) ==
  {trace[k].outcome.response.data.items :
     k \in {m \in 1..Len(trace) :
              /\ trace[m].ev = "gatherer"
              /\ trace[m].src = src
              /\ trace[m].name = g
              /\ ~trace[m].outcome.throws
              /\ trace[m].outcome.response.data.kind = "list"}}

\* C20 as stated: with multiRowsGatherer = g, a source for which g returns a
\* data list of k items gets k results in the destination, the i-th holding
\* the i-th item under result[g].data, in the order of the list.
C20_MultiRows ==
  (PassExecuted /\ options.hasDestDatasetId /\ options.multiRowsGatherer # "") =>
    \A s \in 1..Len(sources) :
      \A items \in DataLists(s, options.multiRowsGatherer) :
        LET g == options.multiRowsGatherer
            rows == SelectSeq(destination[options.destDatasetId],
                              LAMBDA r : r.label = sources[s].label)
        IN /\ Len(rows) = Len(items)
           /\ \A k \in 1..Len(rows) :
                /\ g \in DOMAIN rows[k].sub
                /\ rows[k].sub[g].data = DataObject(items[k])

\* The runs of the DocaiGatherer that failed: a missing precondition or a
\* Document AI call that returned a status other than 200.
DocaiFailures ==
  {k \in 1..Len(trace) :
     /\ trace[k].ev = "gatherer"
     /\ trace[k].name = "docai"
     /\ ~trace[k].outcome.throws
     /\ trace[k].outcome.response.error # ""}

\* C21 as stated: when the run of the docai gatherer fails a precondition or
\* the Document AI call returns a status other than 200, the result written
\* for the source has status ERROR and its errors hold "[docai] " followed
\* by the failure message.
C21_DocaiFailureInErrors ==
  \A k \in DocaiFailures :
    \A b \in 1..Len(appended) :
      \A r \in 1..Len(appended[b]) :
        appended[b][r].label = sources[trace[k].src].label =>
          /\ appended[b][r].status = Status.ERROR
          /\ Str("[docai] " \o trace[k].outcome.response.error)
               \in Range(appended[b][r].errors)

\* C26 as stated: within one pass the ids of the created results are
\* pairwise distinct, also when several are created at one clock value.
C26_DistinctIds ==
  \A a \in 1..Len(allNewResults) :
    \A b \in 1..Len(allNewResults) :
      a # b => allNewResults[a].id # allNewResults[b].id

\* The positions of seq that hold the first occurrence of their element.
FirstOccurrences(seq) ==
  {k \in 1..Len(seq) : \A m \in 1..(k - 1) : seq[m] # seq[k]}

\* The names of the gatherer runs of source src, in the order of the runs.
InvokedNames(src) ==
  LET runs == SelectSeq(trace, LAMBDA e : e.ev = "gatherer" /\ e.src = src)
  IN [k \in 1..Len(runs) |-> runs[k].name]

\* The names of the gatherer runs of source src that gave a response.
AnsweredNames(src) ==
  {trace[k].name : k \in {m \in 1..Len(trace) :
     /\ trace[m].ev = "gatherer"
     /\ trace[m].src = src
     /\ ~runGatherer(trace[m].name, trace[m].outcome).isNull}}

\* C27: for every source the gatherers invoked are the distinct names of
\* source.gatherer followed by options.gatherer, each once and in the order
\* of first occurrence, and the result holds one sub-record for each invoked
\* name that returned a response and no other.
C27_DistinctGatherersOnce ==
  \A s \in 1..Len(allNewResults) :
    LET given == parseGathererNames(sources[s].gatherer)
                   \o parseGathererNames(options.gatherer)
        invoked == InvokedNames(s)
    IN /\ Len(invoked) = Cardinality(FirstOccurrences(given))
       /\ Range(invoked) = Range(given)
       /\ \A a \in 1..Len(invoked) : \A b \in 1..Len(invoked) :
            a < b =>
              /\ invoked[a] # invoked[b]
              /\ \E m \in FirstOccurrences(given), n \in FirstOccurrences(given) :
                   m < n /\ given[m] = invoked[a] /\ given[n] = invoked[b]
       /\ DOMAIN allNewResults[s].sub = AnsweredNames(s)

\* Source gatherers ['b','a','b'] with option gatherer 'b': b and a are run
\* once each, in that order.
C27_Witness ==
  /\ pc = "done"
  /\ Len(sources) = 1
  /\ sources[1].gatherer = GathererList(<<"b", "a", "b">>)
  /\ options.gatherer = GathererString(<<"b">>)
  /\ InvokedNames(1) = <<"b", "a">>
  /\ DOMAIN allNewResults[1].sub = {"a", "b"}

\* C28 as stated: a null entry of a sub-result's errors contributes nothing
\* to the errors of the result: getOverallErrors returns no string built
\* from an entry without a message.
C28_NoMessageNoEntry ==
  pc = "afterRun" =>
    \A n \in DOMAIN newResult.sub :
      NullErr \in Range(newResult.sub[n].errors.items) =>
        Str("[" \o n \o "] null") \notin Range(newResult.errors)

\* The 1-based index of the last row of sheet with a value, 0 if none.
LastRowWithValue(sheet) ==
  IF \E k \in 1..Len(sheet) : sheet[k]
  THEN CHOOSE k \in 1..Len(sheet) : sheet[k] /\ \A m \in (k + 1)..Len(sheet) : ~sheet[m]
  ELSE 0

\* C29 as stated: getTabLastRow terminates for every sheet and returns the
\* 1-based index of the last row with a non-blank cell, 0 when every row is
\* blank.  rowIndex only counts down, so a call that returns a row of the
\* sheet or 0 never has rowIndex below 0.
C29_LastRowTerminates ==
  /\ rowIndex >= 0
  /\ tabPc = "returned" => rowIndex = LastRowWithValue(sheetValues)

\* C30 as stated: the callback runs only while its execution holds the
\* script lock, so one callback at a time; an execution that did not get
\* the lock does not run the callback; and once runWithServiceLock has
\* ended, by a return or by a throw of the callback, the lock it acquired
\* is released.
C30_LockReleasedOnEveryPath ==
  \A e \in DOMAIN lockPc :
    /\ lockPc[e] \in {"locked", "release"} => lockHolder = e
    /\ lockPc[e] \in {"returned", "thrown"} => lockHolder # e
    /\ lockPc[e] \in {"call", "noCallback"} => e \notin called

\* ------------------------------------------------------- C22, C23, C24
\* The results entry p of passLog appended to the Results tab.
CreatedBy(p) == SubSeq(p.resultsAfter, Len(p.resultsBefore) + 1, Len(p.resultsAfter))

\* Row k of the Sources tab passes the filters of pass p.
ReadBy(p, k) == p.filters = <<>> \/ k + SkipRows = 4

\* Row k of the Sources tab, as pass p found it, has a frequency and a
\* nextTriggerTimestamp that is null or not after the start of p.
DueFor(p, k) ==
  /\ p.sourcesBefore[k].frequency # ""
  /\ \/ p.sourcesBefore[k].nextTriggerTimestamp = NoTimestamp
     \/ p.sourcesBefore[k].nextTriggerTimestamp <= p.start

ResultsFor(p, label) == {r \in 1..Len(CreatedBy(p)) : CreatedBy(p)[r].label = label}

RecurringEntries == {n \in 1..Len(passLog) : passLog[n].op = "recurring"}

\* C22: a recurring pass started at `now` (not in activateOnly mode) appends
\* exactly one result of type "recurring" for every source it reads that has
\* a frequency and a nextTriggerTimestamp that is absent, null or <= now, and
\* no result for a source without frequency or with a later timestamp; the
\* results of earlier passes stay as they were.
C22_RecurringProcessesDue ==
  \A n \in RecurringEntries :
    LET p == passLog[n] IN
    ~p.activateOnly =>
      /\ SubSeq(p.resultsAfter, 1, Len(p.resultsBefore)) = p.resultsBefore
      /\ \A r \in 1..Len(CreatedBy(p)) : CreatedBy(p)[r].type = "recurring"
      /\ \A k \in 1..Len(p.sourcesBefore) :
           Cardinality(ResultsFor(p, p.sourcesBefore[k].label))
             = IF ReadBy(p, k) /\ DueFor(p, k) THEN 1 ELSE 0

\* A pass without filters found a due source, a source whose timestamp is in
\* the future and a source without frequency.
C22_Witness ==
  \E n \in RecurringEntries :
    LET p == passLog[n] IN
    /\ ~p.activateOnly
    /\ p.filters = <<>>
    /\ \E k \in 1..Len(p.sourcesBefore) :
         DueFor(p, k) /\ p.sourcesBefore[k].nextTriggerTimestamp = p.start
    /\ \E k \in 1..Len(p.sourcesBefore) :
         ~DueFor(p, k) /\ p.sourcesBefore[k].frequency # ""
    /\ Len(CreatedBy(p)) = 1

\* The pass that made the step from passLog to passLog'.
LastPass == passLog'[Len(passLog')]
PassMade == Len(passLog') = Len(passLog) + 1

\* C23: after a recurring pass that started at t, every source it read that
\* was due has a nextTriggerTimestamp greater than t; the next pass, if it is
\* a recurring pass started before that timestamp, appends no result for the
\* source; and only a recurring pass changes a nextTriggerTimestamp.
C23_RescheduledAfterPass ==
  /\ [](\A n \in RecurringEntries :
         LET p == passLog[n] IN
         \A k \in 1..Len(p.sourcesBefore) :
           (ReadBy(p, k) /\ DueFor(p, k)) =>
             /\ p.sourcesAfter[k].nextTriggerTimestamp > p.start
             /\ (n + 1 \in RecurringEntries
                 /\ passLog[n + 1].start < p.sourcesAfter[k].nextTriggerTimestamp)
                => ResultsFor(passLog[n + 1], p.sourcesBefore[k].label) = {})
  /\ [][/\ Len(sourcesTab') = Len(sourcesTab)
        /\ \A k \in 1..Len(sourcesTab) :
             sourcesTab'[k].nextTriggerTimestamp # sourcesTab[k].nextTriggerTimestamp
               => PassMade /\ LastPass.op = "recurring"]_vars

\* Two recurring passes that run the gatherers, one right after the other:
\* the first made a result for a due source, the second read it again.
C23_Witness ==
  /\ Len(passLog) = 2
  /\ passLog[1].op = "recurring" /\ passLog[2].op = "recurring"
  /\ ~passLog[1].activateOnly /\ ~passLog[2].activateOnly
  /\ passLog[1].filters = <<>> /\ passLog[2].filters = <<>>
  /\ passLog[1].start = passLog[2].start
  /\ Len(CreatedBy(passLog[1])) = 2
  /\ Len(CreatedBy(passLog[2])) = 0

RetrieveEntries == {n \in 1..Len(passLog) : passLog[n].op = "retrieve"}

\* The rows of the Results tab, as pass p found or left them (`rows`), that
\* pass the filters of p and are neither RETRIEVED nor ERROR.
PendingRows(p, rows) ==
  {k + SkipRows : k \in {j \in 1..Len(rows) :
     ReadBy(p, j) /\ rows[j].status \notin {Status.RETRIEVED, Status.ERROR}}}

\* Pass n + 1 is a retrieval pass made right after retrieval pass n: same
\* options, same day, and the service of the gatherer holds the same jobs.
RetrievedAgain(n) ==
  /\ n \in RetrieveEntries
  /\ n + 1 \in RetrieveEntries
  /\ passLog[n + 1].filters = passLog[n].filters
  /\ passLog[n + 1].start = passLog[n].start
  /\ passLog[n + 1].jobsBefore = passLog[n].jobsBefore

\* What every retrieval pass does: it polls the results that are neither
\* RETRIEVED nor ERROR, writes only polled rows, and keeps the number of
\* results, their ids and every row it did not poll.
UpdatesPolledRows(p) ==
  /\ p.polled = PendingRows(p, p.resultsBefore)
  /\ p.written \subseteq p.polled
  /\ Len(p.resultsAfter) = Len(p.resultsBefore)
  /\ \A k \in 1..Len(p.resultsBefore) :
       /\ p.resultsAfter[k].id = p.resultsBefore[k].id
       /\ k + SkipRows \notin p.polled => p.resultsAfter[k] = p.resultsBefore[k]

====
